---- MODULE Spec2Model ----
(***************************************************************************)
(* kalshibot: the anomaly scorer (analyzer.py) and the movement detector   *)
(* (soccer.py) as a state machine.  The state is the input of a scan (the  *)
(* market snapshots and the candle history the client fetched), the heap   *)
(* of Python list objects (flag lists and alert lists) and the record of   *)
(* the most recent call.  One action per function of the core.  The        *)
(* paging loop of the client (kalshi_client.py) is a process of its own,   *)
(* one step per page, against a server given as its pages (PagerSpec).     *)
(*                                                                         *)
(* Numbers.  Quotes, volumes and thresholds are integers.  Every derived   *)
(* float (midpoint, sub-scores, ratios) is an exact rational [n, d] in     *)
(* lowest terms with d > 0; anomaly_score, which the code rounds to 3      *)
(* decimals, is an integer number of thousandths.  The code computes in    *)
(* binary floating point: the rational model and the code agree on every   *)
(* input of this model (compared by enumeration).                          *)
(***************************************************************************)
EXTENDS Integers, Sequences, FiniteSets, TLC

VARIABLES markets, candles, probe, heap, last, pager

vars == <<markets, candles, probe, heap, last, pager>>

(***************************************************************************)
(* Exact rationals                                                         *)
(***************************************************************************)
Abs(x) == IF x < 0 THEN -x ELSE x

RECURSIVE Gcd(_, _)
Gcd(a, b) == IF b = 0 THEN a ELSE Gcd(b, a % b)

\* n/d in lowest terms, d > 0
Rat(n, d) ==
    LET s == IF d < 0 THEN -1 ELSE 1
        g == Gcd(Abs(n), Abs(d))
    IN  [n |-> (s * n) \div g, d |-> (s * d) \div g]

Int2Rat(i) == [n |-> i, d |-> 1]

RAdd(a, b) ==
    LET g == Gcd(a.d, b.d)
    IN  Rat(a.n * (b.d \div g) + b.n * (a.d \div g), (a.d \div g) * b.d)

RNeg(a) == [n |-> -a.n, d |-> a.d]
RSub(a, b) == RAdd(a, RNeg(b))

RMul(a, b) ==
    LET g1 == Gcd(Abs(a.n), b.d)
        g2 == Gcd(Abs(b.n), a.d)
    IN  Rat((a.n \div g1) * (b.n \div g2), (a.d \div g2) * (b.d \div g1))

\* a / b, b # 0
RDiv(a, b) == RMul(a, Rat(b.d, b.n))

RLe(a, b) == a.n * b.d <= b.n * a.d
RLt(a, b) == a.n * b.d < b.n * a.d
RMin(a, b) == IF RLe(a, b) THEN a ELSE b
RMax(a, b) == IF RLe(b, a) THEN a ELSE b
RAbs(a) == [n |-> Abs(a.n), d |-> a.d]

Zero == Int2Rat(0)
One == Int2Rat(1)

\* Python's round(x, 3) as a number of thousandths: the nearest, a tie to the
\* even one.  Long division, one decimal at a time.
Round3(x) ==
    LET q0 == x.n \div x.d
        r0 == x.n % x.d
        d1 == (r0 * 10) \div x.d
        r1 == (r0 * 10) % x.d
        d2 == (r1 * 10) \div x.d
        r2 == (r1 * 10) % x.d
        d3 == (r2 * 10) \div x.d
        r3 == (r2 * 10) % x.d
        fl == q0 * 1000 + d1 * 100 + d2 * 10 + d3
    IN  IF 2 * r3 > x.d \/ (2 * r3 = x.d /\ fl % 2 = 1) THEN fl + 1 ELSE fl

(***************************************************************************)
(* Raw input values: a field of a dict is a number, null, or not there.    *)
(***************************************************************************)
Num(v) == [tag |-> "num", val |-> v]
Null == [tag |-> "null", val |-> 0]
Missing == [tag |-> "missing", val |-> 0]

\* market.get(key, 0) or 0  /  market.get(key) or 0
GetOr0(raw) == IF raw.tag = "num" THEN raw.val ELSE 0

None == [kind |-> "None"]

(***************************************************************************)
(* The heap of list objects: ref -> the list's content.  A Python list     *)
(* literal [] is a new object, distinct from every live one.               *)
(***************************************************************************)
EmptyHeap == [r \in {} |-> <<>>]

Put(h, r, v) == [x \in (DOMAIN h) \cup {r} |-> IF x = r THEN v ELSE h[x]]

FreshRef(h) ==
    CHOOSE r \in 1..(Cardinality(DOMAIN h) + 1) :
        r \notin DOMAIN h /\ \A s \in 1..(r - 1) : s \in DOMAIN h

\* (one list object shared by every result, as a mutable default would be)
NewList_Shared(h) ==
    [ref |-> 1, heap |-> IF 1 \in DOMAIN h THEN h ELSE Put(h, 1, <<>>)]

\* flags: list[str] = []   /   alerts: list[str] = []
NewList(h) == [ref |-> FreshRef(h), heap |-> Put(h, FreshRef(h), <<>>)]

\* lst.append(x)
ListAppend(h, r, x) == [h EXCEPT ![r] = Append(@, x)]

Restrict(h, refs) == [r \in (DOMAIN h) \cap refs |-> h[r]]

(***************************************************************************)
(* analyzer.py                                                             *)
(***************************************************************************)
_spread_score_NoClamp(spread, midpoint) ==
    IF RLe(midpoint, Zero) THEN Zero
    ELSE RMin(RDiv(RDiv(spread, midpoint), Rat(1, 2)), One)

_spread_score(spread, midpoint) ==
    IF RLe(midpoint, Zero) THEN Zero
    ELSE LET relative == RDiv(spread, RMax(midpoint, One))
         IN  RMin(RDiv(relative, Rat(1, 2)), One)

_liquidity_score(volume_24h, open_interest, max_vol) ==
    LET IMax(a, b) == IF a >= b THEN a ELSE b
        vol_score == RSub(One, RMin(Rat(volume_24h, IMax(max_vol, 1)), One))
        oi_score == RSub(One, RMin(Rat(open_interest, IMax(max_vol * 5, 1)), One))
    IN  RAdd(RMul(Rat(6, 10), vol_score), RMul(Rat(4, 10), oi_score))

_skew_score_Saturate10(yes_bid, no_ask) ==
    LET gap == Abs(yes_bid + no_ask - 100)
    IN  RMin(Rat(gap, 10), One)

_skew_score(yes_bid, no_ask) ==
    LET gap == Abs(yes_bid + no_ask - 100)
    IN  RMin(Rat(gap, 20), One)

\* The flags, as the text and the number it is formatted from.
Flag(name, arg) == [flag |-> name, arg |-> arg]
SpreadThresholdFlag == [flag |-> "spread-threshold", arg |-> 0]

\* The three conditional appends of score_market, in the code's order.
ScoreFlags_Elif(h, r, spread, volume_24h, volume_threshold, skew) ==
    IF spread >= 10 THEN ListAppend(h, r, Flag("wide-spread", spread))
    ELSE IF volume_24h <= volume_threshold
    THEN ListAppend(h, r, Flag("low-volume", volume_24h))
    ELSE IF skew >= 5 THEN ListAppend(h, r, Flag("price-skew", skew))
    ELSE h

ScoreFlags(h, r, spread, volume_24h, volume_threshold, skew) ==
    LET h1 == IF spread >= 10
              THEN ListAppend(h, r, Flag("wide-spread", spread)) ELSE h
        h2 == IF volume_24h <= volume_threshold
              THEN ListAppend(h1, r, Flag("low-volume", volume_24h)) ELSE h1
        h3 == IF skew >= 5
              THEN ListAppend(h2, r, Flag("price-skew", skew)) ELSE h2
    IN  h3

\* "Skip markets with no active pricing on either side"
NoActivePricing_Both(yes_ask, no_ask) == yes_ask = 0 /\ no_ask = 0

NoActivePricing(yes_ask, no_ask) == yes_ask = 0 \/ no_ask = 0

\* score_market(market, volume_threshold) on heap h: the value returned
\* (None or a MarketSignal whose flags field is a list reference) and the heap
\* it leaves.
score_market(h, market, volume_threshold) ==
    LET yes_bid == GetOr0(market.yes_bid)
        yes_ask == GetOr0(market.yes_ask)
        no_bid == GetOr0(market.no_bid)
        no_ask == GetOr0(market.no_ask)
        volume_24h == GetOr0(market.volume_24h)
        open_interest == GetOr0(market.open_interest)
    IN  IF NoActivePricing(yes_ask, no_ask) THEN [val |-> None, heap |-> h]
        ELSE
        LET spread == yes_ask - yes_bid
            midpoint == Rat(yes_bid + yes_ask, 2)
            skew == Abs(yes_bid + no_ask - 100)
            s_score == _spread_score(Int2Rat(spread), midpoint)
            l_score == _liquidity_score(volume_24h, open_interest, volume_threshold)
            k_score == _skew_score(yes_bid, no_ask)
            anomaly_score ==
                Round3(RAdd(RAdd(RMul(Rat(40, 100), s_score),
                                 RMul(Rat(35, 100), l_score)),
                            RMul(Rat(25, 100), k_score)))
            fl == NewList(h)
        IN  [val |-> [kind |-> "MarketSignal",
                      ticker |-> market.ticker,
                      yes_bid |-> yes_bid, yes_ask |-> yes_ask,
                      no_bid |-> no_bid, no_ask |-> no_ask,
                      volume_24h |-> volume_24h,
                      open_interest |-> open_interest,
                      spread |-> spread, midpoint |-> midpoint, skew |-> skew,
                      anomaly_score |-> anomaly_score,
                      flags |-> fl.ref],
             heap |-> ScoreFlags(fl.heap, fl.ref, spread, volume_24h,
                                 volume_threshold, skew)]

\* signals.sort(key=lambda s: s.anomaly_score, reverse=True): list.sort is
\* stable, and with reverse=True equal keys keep their original order.  The
\* element goes behind every element whose key is not smaller.
RECURSIVE InsertByScore_Unstable(_, _)
InsertByScore_Unstable(sorted, sig) ==
    IF sorted = <<>> THEN <<sig>>
    ELSE IF Head(sorted).anomaly_score > sig.anomaly_score
         THEN <<Head(sorted)>> \o InsertByScore_Unstable(Tail(sorted), sig)
         ELSE <<sig>> \o sorted

RECURSIVE InsertByScore(_, _)
InsertByScore(sorted, sig) ==
    IF sorted = <<>> THEN <<sig>>
    ELSE IF Head(sorted).anomaly_score >= sig.anomaly_score
         THEN <<Head(sorted)>> \o InsertByScore(Tail(sorted), sig)
         ELSE <<sig>> \o sorted

RECURSIVE SortByScoreDesc(_)
SortByScoreDesc(signals) ==
    IF signals = <<>> THEN <<>>
    ELSE InsertByScore(SortByScoreDesc(SubSeq(signals, 1, Len(signals) - 1)),
                       signals[Len(signals)])

\* (the iteration with "if" for the "elif" of the spread branch)
FindStep_NoElif(h, signals, m, min_score, volume_threshold, spread_threshold, min_volume) ==
    LET r == score_market(h, m, volume_threshold)
        sig == r.val
        scored == IF sig # None /\ sig.anomaly_score >= min_score
                  THEN Append(signals, sig) ELSE signals
    IN  IF sig # None /\ sig.volume_24h < min_volume
        THEN [signals |-> signals, heap |-> r.heap]
        ELSE IF sig # None /\ sig.spread >= spread_threshold
        THEN [signals |-> Append(scored, sig),
              heap |-> ListAppend(r.heap, sig.flags, SpreadThresholdFlag)]
        ELSE [signals |-> scored, heap |-> r.heap]

\* One iteration of the loop of find_anomalies over market m: the signals
\* list and the heap after it.
FindStep(h, signals, m, min_score, volume_threshold, spread_threshold, min_volume) ==
    LET r == score_market(h, m, volume_threshold)
        sig == r.val
    IN  IF sig # None /\ sig.volume_24h < min_volume
        THEN [signals |-> signals, heap |-> r.heap]
        ELSE IF sig # None /\ sig.anomaly_score >= min_score
        THEN [signals |-> Append(signals, sig), heap |-> r.heap]
        ELSE IF sig # None /\ sig.spread >= spread_threshold
        THEN [signals |-> Append(signals, sig),
              heap |-> ListAppend(r.heap, sig.flags, SpreadThresholdFlag)]
        ELSE [signals |-> signals, heap |-> r.heap]

RECURSIVE FindLoop(_, _, _, _, _, _, _)
FindLoop(h, mkts, n, min_score, volume_threshold, spread_threshold, min_volume) ==
    IF n = 0 THEN [signals |-> <<>>, heap |-> h]
    ELSE LET before == FindLoop(h, mkts, n - 1, min_score, volume_threshold,
                                spread_threshold, min_volume)
         IN  FindStep(before.heap, before.signals, mkts[n], min_score,
                      volume_threshold, spread_threshold, min_volume)

find_anomalies(h, mkts, min_score, volume_threshold, spread_threshold, min_volume) ==
    LET done == FindLoop(h, mkts, Len(mkts), min_score, volume_threshold,
                         spread_threshold, min_volume)
    IN  [val |-> SortByScoreDesc(done.signals), heap |-> done.heap]

(***************************************************************************)
(* soccer.py                                                               *)
(***************************************************************************)
\* (candle.get("yes_bid") or {}).get("close"): a number or None.  The raw
\* field is Missing (no dict), Null (no close in it, or a null one) or a number.
_candle_midpoint(candle) ==
    IF candle.yes_bid.tag # "num" \/ candle.yes_ask.tag # "num" THEN None
    ELSE [kind |-> "float", val |-> Rat(candle.yes_bid.val + candle.yes_ask.val, 2)]

\* min(candles, key=lambda c: abs(c["end_period_ts"] - target_ts)): min() walks
\* the list from its first item and replaces the item it holds only by one
\* whose key is smaller.
Closer_OrEqual(key, held) == key <= held

Closer(key, held) == key < held

\* The position min() holds after the items i..Len(cs), holding best before.
RECURSIVE MinFrom(_, _, _, _)
MinFrom(cs, target_ts, i, best) ==
    IF i > Len(cs) THEN best
    ELSE MinFrom(cs, target_ts, i + 1,
                 IF Closer(Abs(cs[i].end_period_ts - target_ts),
                           Abs(cs[best].end_period_ts - target_ts))
                 THEN i ELSE best)

\* The position in cs of the object min() returns.
NearestIndex(cs, target_ts) == MinFrom(cs, target_ts, 2, 1)

_nearest_candle(cs, target_ts) ==
    IF cs = <<>> THEN None
    ELSE cs[NearestIndex(cs, target_ts)]

MaxTs(cs) ==
    CHOOSE t \in {cs[i].end_period_ts : i \in 1..Len(cs)} :
        \A i \in 1..Len(cs) : cs[i].end_period_ts <= t

\* sum(c.get("volume", 0) for c in part): a missing volume counts 0; a null one
\* is None, and int + None raises TypeError.
RECURSIVE SumVolumes(_)
SumVolumes(part) ==
    IF part = <<>> THEN [kind |-> "int", val |-> 0]
    ELSE LET rest == SumVolumes(SubSeq(part, 1, Len(part) - 1))
             v == part[Len(part)].volume
         IN  IF rest.kind = "TypeError" \/ v.tag = "null"
             THEN [kind |-> "TypeError"]
             ELSE [kind |-> "int", val |-> rest.val + GetOr0(v)]

\* One price-move check (steps 1 and 2 of detect_movements): the alerts heap
\* and the magnitude after it.
PriceMove_KeepMagnitude(h, alerts, magnitude, cs, current_mid, target_ts, cents, window) ==
    LET candle == _nearest_candle(cs, target_ts)
        mid == _candle_midpoint(candle)
    IN  IF mid = None THEN [heap |-> h, magnitude |-> magnitude]
        ELSE LET move == RSub(current_mid, mid.val)
             IN  IF RLe(Int2Rat(cents), RAbs(move))
                 THEN [heap |-> ListAppend(h, alerts,
                                  [alert |-> "price", move |-> move, window |-> window]),
                       magnitude |-> magnitude]
                 ELSE [heap |-> h, magnitude |-> magnitude]

PriceMove(h, alerts, magnitude, cs, current_mid, target_ts, cents, window) ==
    LET candle == _nearest_candle(cs, target_ts)
        mid == _candle_midpoint(candle)
    IN  IF mid = None THEN [heap |-> h, magnitude |-> magnitude]
        ELSE LET move == RSub(current_mid, mid.val)
             IN  IF RLe(Int2Rat(cents), RAbs(move))
                 THEN [heap |-> ListAppend(h, alerts,
                                  [alert |-> "price", move |-> move, window |-> window]),
                       magnitude |-> RMax(magnitude, RAbs(move))]
                 ELSE [heap |-> h, magnitude |-> magnitude]

\* Step 3, the volume spike: TypeError, or the alerts heap and the magnitude.
VolumeSpike(h, alerts, magnitude, cs, volume_multiplier) ==
    IF Len(cs) < 4 THEN [kind |-> "ok", heap |-> h, magnitude |-> magnitude]
    ELSE
    LET mid == Len(cs) \div 2
        earlier == SumVolumes(SubSeq(cs, 1, mid))
        recent == SumVolumes(SubSeq(cs, mid + 1, Len(cs)))
    IN  IF earlier.kind = "TypeError" \/ recent.kind = "TypeError"
        THEN [kind |-> "TypeError"]
        ELSE
        LET earlier_vol == IF earlier.val = 0 THEN 1 ELSE earlier.val
            ratio == Rat(recent.val, earlier_vol)
        IN  IF RLe(Int2Rat(volume_multiplier), ratio)
            THEN [kind |-> "ok",
                  heap |-> ListAppend(h, alerts,
                               [alert |-> "volume spike", ratio |-> ratio]),
                  magnitude |-> RMax(magnitude, RMul(ratio, Int2Rat(5)))]
            ELSE [kind |-> "ok", heap |-> h, magnitude |-> magnitude]

\* if yes_ask == 0: return None
NoActiveAsk_Unchecked(yes_ask) == FALSE

NoActiveAsk(yes_ask) == yes_ask = 0

\* detect_movements(market, candles, ...) on heap h: the value returned (None
\* or a MovementAlert whose alerts field is a list reference) or the exception
\* raised, and the heap it leaves.
detect_movements(h, market, cs, short_minutes, short_cents, long_hours, long_cents, volume_multiplier) ==
    IF cs = <<>> THEN [val |-> None, heap |-> h]
    ELSE
    LET yes_bid == GetOr0(market.yes_bid)
        yes_ask == GetOr0(market.yes_ask)
    IN  IF NoActiveAsk(yes_ask) THEN [val |-> None, heap |-> h]
        ELSE
        LET current_mid == Rat(yes_bid + yes_ask, 2)
            current_ts == MaxTs(cs)
            al == NewList(h)
            short == PriceMove(al.heap, al.ref, Zero, cs, current_mid,
                               current_ts - short_minutes * 60, short_cents,
                               <<short_minutes, "m">>)
            long == PriceMove(short.heap, al.ref, short.magnitude, cs, current_mid,
                              current_ts - long_hours * 3600, long_cents,
                              <<long_hours, "h">>)
            spike == VolumeSpike(long.heap, al.ref, long.magnitude, cs,
                                 volume_multiplier)
        IN  IF spike.kind = "TypeError"
            THEN [val |-> [kind |-> "TypeError"], heap |-> long.heap]
            ELSE IF spike.heap[al.ref] = <<>>
            THEN [val |-> None, heap |-> spike.heap]
            ELSE [val |-> [kind |-> "MovementAlert",
                           ticker |-> market.ticker,
                           yes_bid |-> yes_bid, yes_ask |-> yes_ask,
                           midpoint |-> current_mid,
                           volume_24h |-> GetOr0(market.volume_24h),
                           alerts |-> al.ref,
                           magnitude |-> spike.magnitude],
                  heap |-> spike.heap]

(***************************************************************************)
(* kalshi_client.py                                                        *)
(***************************************************************************)
\* A cursor is None (the key is absent or null), the empty string, or a
\* non-empty token, which names the page the server answers it with.
NoCursor == [cur |-> "None"]
EmptyCursor == [cur |-> "empty"]
CursorTo(k) == [cur |-> "token", page |-> k]

\* "if cursor:" and "if not cursor": None and "" are false.
Truthy(cursor) == cursor.cur = "token"

\* get_markets(cursor=cursor) against a server given as its pages: the cursor
\* parameter is sent only "if cursor"; a request without one is answered with
\* the first page, one with a token with the page the token names.
get_markets(server, cursor) ==
    LET param == IF Truthy(cursor) THEN cursor ELSE NoCursor
        index == IF param = NoCursor THEN 1 ELSE param.page
    IN  [param |-> param, index |-> index, page |-> server[index]]

\* page.get("markets", [])
PageMarkets(page) == IF page.markets = Missing THEN <<>> ELSE page.markets.val

\* markets[:max_markets], max_markets >= 0
Take(list, n) == SubSeq(list, 1, IF n < Len(list) THEN n ELSE Len(list))

\* if not cursor or len(markets) >= max_markets: break
LoopBreaks_CursorOnly(cursor, fetched, max_markets) == ~Truthy(cursor)

LoopBreaks(cursor, fetched, max_markets) ==
    ~Truthy(cursor) \/ Len(fetched) >= max_markets

(***************************************************************************)
(* Inputs                                                                  *)
(***************************************************************************)
MaxMarkets == 3
MaxCandles == 4
MaxPages == 2
MaxCap == 3
SpreadSteps == 10
MidSteps == 9

\* Defaults of the keyword parameters.
DefaultVolumeThreshold == 500
DefaultMinScore == 500       \* 0.5, in thousandths
DefaultSpreadThreshold == 10
DefaultMinVolume == 1
ShortMinutes == 30
ShortCents == 5
LongHours == 2
LongCents == 10
VolumeMultiplier == 2

Snapshot(yb, ya, nb, na, v, oi) ==
    [ticker |-> 1, yes_bid |-> yb, yes_ask |-> ya, no_bid |-> nb, no_ask |-> na,
     volume_24h |-> v, open_interest |-> oi]

\* One snapshot, every field over numbers, null and missing: the scenario A
\* snapshot (40, 60, 35, 45, 10, 5), crossed books (yes_bid > yes_ask), one-sided
\* books, a midpoint below one cent, a spread of exactly 10 and a skew of
\* exactly 5.
WideSnapshots ==
    {Snapshot(yb, ya, nb, na, v, oi) :
        yb \in {Missing, Null, Num(40), Num(50), Num(60)},
        ya \in {Missing, Null, Num(0), Num(1), Num(30), Num(60)},
        nb \in {Null, Num(35)},
        na \in {Null, Num(0), Num(45)},
        v \in {Null, Num(10), Num(1000)},
        oi \in {Missing, Num(5)}}

\* The snapshots of a batch: scored 0.857 with no volume, 0.647 with a 20 cent
\* spread, 0.209 with a 5 cent spread, and one without an ask (not scoreable).
BatchSnapshots ==
    { Snapshot(Num(40), Num(60), Num(35), Num(45), Num(0), Num(5)),
      Snapshot(Num(40), Num(60), Num(35), Num(45), Num(1000), Num(5)),
      Snapshot(Num(55), Num(60), Num(35), Num(45), Num(1000), Num(5)),
      Snapshot(Num(55), Null, Num(35), Num(45), Num(1000), Num(5)) }

\* The keyword arguments find_anomalies is called with: the defaults, a
\* stricter score with no volume floor, and a looser spread threshold.
FindParams ==
    { [min_score |-> DefaultMinScore, volume_threshold |-> DefaultVolumeThreshold,
       spread_threshold |-> DefaultSpreadThreshold, min_volume |-> DefaultMinVolume],
      [min_score |-> 700, volume_threshold |-> DefaultVolumeThreshold,
       spread_threshold |-> DefaultSpreadThreshold, min_volume |-> 0],
      [min_score |-> DefaultMinScore, volume_threshold |-> DefaultVolumeThreshold,
       spread_threshold |-> 5, min_volume |-> DefaultMinVolume] }

\* The snapshot a candle history is compared with: midpoint 50, or no ask;
\* with and without a no-side ask.
MoveSnapshots ==
    {Snapshot(Num(48), ya, Num(35), na, Null, Num(5)) :
        ya \in {Missing, Num(52)},
        na \in {Num(0), Num(45)}}

Candle(ts, bid, ask, v) ==
    [end_period_ts |-> ts, yes_bid |-> bid, yes_ask |-> ask, volume |-> v]

\* Candles one and two hours apart, closing at midpoints 40, 45 and 50 or with
\* no midpoint, with volumes 0, 300, missing and null.
CandleSet ==
    { Candle(0, Num(38), Num(42), Num(0)),
      Candle(3600, Num(44), Num(46), Missing),
      Candle(7200, Num(48), Num(52), Num(300)),
      Candle(7200, Missing, Null, Null) }

\* Longer histories for the volume spike: candles of volume 0, 100 and 300 at
\* midpoints 50 and 45, in lists long enough to have an odd and an even split
\* (among them six candles with an earlier sum of 100 and a recent one of 300).
SpikeSnapshot == Snapshot(Num(48), Num(52), Num(35), Num(45), Null, Num(5))

SpikeCandles ==
    { Candle(7200, Num(48), Num(52), Num(0)),
      Candle(7200, Num(48), Num(52), Num(100)),
      Candle(3600, Num(44), Num(46), Num(300)) }

\* Target timestamps of a lookup alone: on a candle, half way between two
\* candles, before the first candle.
TargetTimes == {-1800, 1800, 3600, 5400}

\* The lists of length lo..hi over S; the i-th snapshot of a list of market
\* snapshots carries ticker i.
Lists(S, lo, hi) == UNION {[1..n -> S] : n \in lo..hi}
Ticketed(ms) == [i \in 1..Len(ms) |-> [ms[i] EXCEPT !.ticker = i]]

\* Spreads and midpoints on a quarter-cent grid, for the spread score alone.
Probes ==
    {[spread |-> Rat(s, 4), midpoint |-> Rat(m, 4)] :
        s \in (-2)..SpreadSteps, m \in (-1)..MidSteps}

NoCall == [op |-> "none"]

\* Servers of up to MaxPages pages.  A page has no "markets" key, or one or
\* two markets (numbered by page and position); its cursor is None, empty or
\* the token of any page, its own and earlier ones included (a server that
\* goes round in circles).
PageItems(p, k) == [j \in 1..k |-> 10 * p + j]

Servers ==
    UNION {
        {[p \in 1..n |->
            [markets |-> IF size[p] = 0 THEN Missing
                         ELSE [tag |-> "list", val |-> PageItems(p, size[p])],
             cursor |-> next[p]]] :
            size \in [1..n -> 0..2],
            next \in [1..n -> {NoCursor, EmptyCursor} \cup {CursorTo(k) : k \in 1..n}]} :
        n \in 1..MaxPages}

\* The most pages a server that ends or yields a market per round is asked
\* for before max_markets <= MaxCap markets are collected.
MaxFetches == MaxPages * MaxCap + 1

NoPager == [pc |-> "none"]

\* iter_markets(max_markets=max_markets) entered: markets = [], cursor = None.
\* sent and served are the server's log: the cursor parameter of each request
\* and the page it answered with.
PagerStart(server, max_markets) ==
    [pc |-> "loop", server |-> server, max_markets |-> max_markets,
     markets |-> <<>>, cursor |-> NoCursor, sent |-> <<>>, served |-> <<>>,
     result |-> None]

Init ==
    /\ heap = EmptyHeap
    /\ last = NoCall
    /\ pager = NoPager
    /\ \/ /\ markets \in Lists(WideSnapshots, 1, 1)
          /\ candles = <<>>
          /\ probe = None
       \/ /\ markets \in {Ticketed(ms) : ms \in Lists(BatchSnapshots, 0, MaxMarkets)}
          /\ candles = <<>>
          /\ probe = None
       \/ /\ markets \in Lists(MoveSnapshots, 1, 1)
          /\ candles \in Lists(CandleSet, 1, MaxCandles)
          /\ probe = None
       \/ /\ markets = <<SpikeSnapshot>>
          /\ candles \in Lists(SpikeCandles, MaxCandles + 1, MaxCandles + 2)
          /\ probe = None
       \/ /\ markets = <<>>
          /\ candles = <<>>
          /\ probe \in Probes
       \/ /\ markets = <<>>
          /\ candles \in Lists(CandleSet, 0, MaxCandles)
          /\ probe = None

(***************************************************************************)
(* Calls.  The caller holds the previous result while the next call runs   *)
(* (its lists are live, so a new list is another object) and drops it when *)
(* the call returns.  The heap is then collected and the references        *)
(* renumbered in allocation order: an object's address is not observable.  *)
(***************************************************************************)
Refs(val) ==
    IF val = None THEN {}
    ELSE IF val.kind = "MarketSignal" THEN {val.flags}
    ELSE IF val.kind = "MovementAlert" THEN {val.alerts}
    ELSE IF val.kind = "list" THEN {val.items[i].flags : i \in 1..Len(val.items)}
    ELSE {}

Collect(val, h) ==
    LET live == Refs(val)
        rank(r) == Cardinality({x \in live : x <= r})
        at(k) == CHOOSE r \in live : rank(r) = k
    IN  [val |-> IF val = None THEN None
                 ELSE IF val.kind = "MarketSignal" THEN [val EXCEPT !.flags = rank(@)]
                 ELSE IF val.kind = "MovementAlert" THEN [val EXCEPT !.alerts = rank(@)]
                 ELSE IF val.kind = "list"
                 THEN [val EXCEPT !.items =
                          [i \in 1..Len(@) |-> [@[i] EXCEPT !.flags = rank(@)]]]
                 ELSE val,
         heap |-> [k \in 1..Cardinality(live) |-> h[at(k)]]]

\* The call record kept of a call that returned (or raised) r: what was
\* called on what, and the result.
Return(call, r) ==
    LET c == Collect(r.val, r.heap)
    IN  /\ last' = [op |-> call.op, call |-> call, result |-> c.val]
        /\ heap' = c.heap

ScoreMarket(i, volume_threshold) ==
    /\ i \in 1..Len(markets)
    /\ Return([op |-> "score_market", market |-> markets[i],
               volume_threshold |-> volume_threshold],
              score_market(heap, markets[i], volume_threshold))
    /\ UNCHANGED <<markets, candles, probe, pager>>

FindAnomalies(min_score, volume_threshold, spread_threshold, min_volume) ==
    /\ probe = None
    /\ candles = <<>>
    /\ LET r == find_anomalies(heap, markets, min_score, volume_threshold,
                               spread_threshold, min_volume)
       IN  Return([op |-> "find_anomalies", markets |-> markets,
                   min_score |-> min_score, volume_threshold |-> volume_threshold,
                   spread_threshold |-> spread_threshold, min_volume |-> min_volume],
                  [val |-> [kind |-> "list", items |-> r.val], heap |-> r.heap])
    /\ UNCHANGED <<markets, candles, probe, pager>>

DetectMovements(i) ==
    /\ i \in 1..Len(markets)
    /\ Return([op |-> "detect_movements", market |-> markets[i], candles |-> candles],
              detect_movements(heap, markets[i], candles, ShortMinutes, ShortCents,
                               LongHours, LongCents, VolumeMultiplier))
    /\ UNCHANGED <<markets, candles, probe, pager>>

SpreadScore ==
    /\ probe # None
    /\ Return([op |-> "_spread_score", spread |-> probe.spread,
               midpoint |-> probe.midpoint],
              [val |-> [kind |-> "float",
                        val |-> _spread_score(probe.spread, probe.midpoint)],
               heap |-> heap])
    /\ UNCHANGED <<markets, candles, probe, pager>>

\* _nearest_candle(candles, target_ts): the candle returned, with its
\* position in the list (the object returned is the one at that position).
NearestCandle(target_ts) ==
    /\ markets = <<>>
    /\ probe = None
    /\ Return([op |-> "_nearest_candle", candles |-> candles, target_ts |-> target_ts],
              [val |-> LET c == _nearest_candle(candles, target_ts)
                       IN  IF c = None THEN None
                           ELSE [kind |-> "candle", candle |-> c,
                                 index |-> NearestIndex(candles, target_ts)],
               heap |-> heap])
    /\ UNCHANGED <<markets, candles, probe, pager>>

Next ==
    \/ \E i \in 1..MaxMarkets, t \in {0, DefaultVolumeThreshold} : ScoreMarket(i, t)
    \/ \E p \in FindParams :
            FindAnomalies(p.min_score, p.volume_threshold, p.spread_threshold,
                          p.min_volume)
    \/ \E i \in 1..MaxMarkets : DetectMovements(i)
    \/ SpreadScore
    \/ \E t \in TargetTimes : NearestCandle(t)

Spec == Init /\ [][Next]_vars

(***************************************************************************)
(* The paging loop of KalshiClient.iter_markets, one step per page: the    *)
(* request, markets.extend, the new cursor and the test that leaves the    *)
(* loop, after which markets[:max_markets] is returned.  A loop that never *)
(* leaves is followed for MaxFetches pages.                                *)
(***************************************************************************)
PagerInit ==
    /\ heap = EmptyHeap
    /\ last = NoCall
    /\ markets = <<>>
    /\ candles = <<>>
    /\ probe = None
    /\ pager \in {PagerStart(server, max_markets) :
                    server \in Servers, max_markets \in 0..MaxCap}

IterMarketsPage ==
    /\ pager.pc = "loop"
    /\ Len(pager.served) < MaxFetches
    /\ LET r == get_markets(pager.server, pager.cursor)
           fetched == pager.markets \o PageMarkets(r.page)
           cursor == r.page.cursor
           done == LoopBreaks(cursor, fetched, pager.max_markets)
       IN  pager' = [pager EXCEPT
                        !.markets = fetched,
                        !.cursor = cursor,
                        !.sent = Append(@, r.param),
                        !.served = Append(@, r.index),
                        !.pc = IF done THEN "done" ELSE "loop",
                        !.result = IF done
                                   THEN [kind |-> "list",
                                         items |-> Take(fetched, pager.max_markets)]
                                   ELSE None]
    /\ UNCHANGED <<markets, candles, probe, heap, last>>

PagerNext == IterMarketsPage

PagerSpec == PagerInit /\ [][PagerNext]_vars /\ WF_vars(IterMarketsPage)

(***************************************************************************)
(* Properties                                                              *)
(***************************************************************************)
\* What a raw quote field counts as: a missing or null one counts 0.
Counted(raw) == IF raw = Missing \/ raw = Null THEN 0 ELSE raw.val

IsSignal(val) == val # None /\ val.kind = "MarketSignal"
IsAlert(val) == val # None /\ val.kind = "MovementAlert"
FlagsOf(sig) == heap[sig.flags]
Items == last.result.items

\* C1: score_market returns absent if and only if yes_ask or no_ask is 0 (a
\* missing or null field counting 0), and a MarketSignal in every other case.
C1_AbsentIffNoAsk ==
    last.op = "score_market" =>
        LET m == last.call.market
            oneSided == Counted(m.yes_ask) = 0 \/ Counted(m.no_ask) = 0
        IN  /\ (last.result = None) <=> oneSided
            /\ ~oneSided => IsSignal(last.result)

\* a snapshot with no yes_ask at all and a live no_ask was scored: absent
C1_Witness ==
    /\ last.op = "score_market"
    /\ last.call.market.yes_ask = Missing
    /\ last.call.market.no_ask = Num(45)
    /\ last.result = None

InUnit(x) == RLe(Zero, x) /\ RLe(x, One)

\* C2: for quotes in 0..100 and non-negative volume and open interest, every
\* signal of score_market has anomaly_score in [0, 1] and its three sub-scores
\* in [0, 1], crossed books (yes_bid > yes_ask) included.  (The spread score
\* of a crossed book is negative.)
C2_ScoresInUnit ==
    (last.op = "score_market" /\ IsSignal(last.result)) =>
        LET sig == last.result
        IN  /\ sig.anomaly_score >= 0 /\ sig.anomaly_score <= 1000
            /\ InUnit(_spread_score(Int2Rat(sig.spread), sig.midpoint))
            /\ InUnit(_liquidity_score(sig.volume_24h, sig.open_interest,
                                       last.call.volume_threshold))
            /\ InUnit(_skew_score(sig.yes_bid, sig.no_ask))

TwoSided(m) == Counted(m.yes_ask) > 0 /\ Counted(m.no_ask) > 0

\* C3 as claimed: a MarketSignal (score_market, find_anomalies) or a
\* MovementAlert (detect_movements) is only produced for a snapshot with
\* yes_ask > 0 and no_ask > 0.
C3_TwoSidedOnly ==
    /\ (last.op = "score_market" /\ IsSignal(last.result)) => TwoSided(last.call.market)
    /\ last.op = "find_anomalies" =>
           \A k \in 1..Len(Items) : TwoSided(last.call.markets[Items[k].ticker])
    /\ (last.op = "detect_movements" /\ IsAlert(last.result)) =>
           TwoSided(last.call.market)

\* C3 amended: for quotes in 0..100, a MarketSignal is only produced for a
\* snapshot with yes_ask > 0 and no_ask > 0; a MovementAlert is only produced
\* for a non-empty candle list and a snapshot with yes_ask > 0 (no_ask is not
\* looked at).
C3_ActiveAskOnly ==
    /\ (last.op = "score_market" /\ IsSignal(last.result)) => TwoSided(last.call.market)
    /\ last.op = "find_anomalies" =>
           \A k \in 1..Len(Items) : TwoSided(last.call.markets[Items[k].ticker])
    /\ (last.op = "detect_movements" /\ IsAlert(last.result)) =>
           /\ Counted(last.call.market.yes_ask) > 0
           /\ last.call.candles # <<>>

\* an alert for a market whose no side has no ask
C3_Witness ==
    /\ last.op = "detect_movements"
    /\ IsAlert(last.result)
    /\ last.call.market.no_ask = Num(0)
    /\ last.call.market.yes_ask = Num(52)

\* C4: the result of find_anomalies is sorted by anomaly_score, descending,
\* and signals of equal score are in the order of their snapshots in the input
\* (the ticker of a snapshot is its position in the input).
C4_SortedStable ==
    last.op = "find_anomalies" =>
        \A i, j \in 1..Len(Items) :
            i < j => /\ Items[i].anomaly_score >= Items[j].anomaly_score
                     /\ Items[i].anomaly_score = Items[j].anomaly_score
                            => Items[i].ticker < Items[j].ticker

\* three signals, the best one from the last snapshot, then two of equal score
C4_Witness ==
    /\ last.op = "find_anomalies"
    /\ Len(Items) = 3
    /\ Items[1].ticker = 3
    /\ Items[1].anomaly_score > Items[2].anomaly_score
    /\ Items[2].anomaly_score = Items[3].anomaly_score

\* The signals of the result made from input snapshot i.
FromSnapshot(i) == {k \in 1..Len(Items) : Items[k].ticker = i}
HasSpreadThreshold(sig) ==
    \E n \in 1..Len(FlagsOf(sig)) : FlagsOf(sig)[n] = SpreadThresholdFlag

\* C5: find_anomalies returns exactly one signal for each snapshot that is
\* scoreable, has volume_24h >= min_volume and has anomaly_score >= min_score
\* or spread >= spread_threshold, and none for any other snapshot; the
\* "spread-threshold" flag is on exactly the returned signals with
\* anomaly_score < min_score, once and as their last flag.
C5_Inclusion ==
    last.op = "find_anomalies" =>
        LET c == last.call
            Score(m) == score_market(EmptyHeap, m, c.volume_threshold).val
            Wanted(m) ==
                /\ TwoSided(m)
                /\ Counted(m.volume_24h) >= c.min_volume
                /\ \/ Score(m).anomaly_score >= c.min_score
                   \/ Counted(m.yes_ask) - Counted(m.yes_bid) >= c.spread_threshold
        IN  /\ \A i \in 1..Len(c.markets) :
                  Cardinality(FromSnapshot(i)) = IF Wanted(c.markets[i]) THEN 1 ELSE 0
            /\ \A k \in 1..Len(Items) :
                  /\ Items[k].ticker \in 1..Len(c.markets)
                  /\ Items[k].anomaly_score = Score(c.markets[Items[k].ticker]).anomaly_score
                  /\ HasSpreadThreshold(Items[k]) <=> Items[k].anomaly_score < c.min_score
                  /\ \A n \in 1..Len(FlagsOf(Items[k])) :
                        FlagsOf(Items[k])[n] = SpreadThresholdFlag
                            => n = Len(FlagsOf(Items[k]))

\* a high-scoring snapshot dropped for its volume, one signal kept for its
\* score and one kept, flagged, for its spread
C5_Witness ==
    /\ last.op = "find_anomalies"
    /\ Len(last.call.markets) = 3
    /\ Len(Items) = 2
    /\ \E i \in 1..3 : /\ FromSnapshot(i) = {}
                       /\ TwoSided(last.call.markets[i])
                       /\ Counted(last.call.markets[i].volume_24h) < last.call.min_volume
    /\ ~HasSpreadThreshold(Items[1])
    /\ HasSpreadThreshold(Items[2])

\* The three conditions of detect_movements as the specification words them,
\* a missing or null number counting 0.
CurrentMid(m) == Rat(Counted(m.yes_bid) + Counted(m.yes_ask), 2)

MoveTriggers(m, cs, window, cents) ==
    LET ref == _nearest_candle(cs, MaxTs(cs) - window)
    IN  /\ ref.yes_bid.tag = "num" /\ ref.yes_ask.tag = "num"
        /\ RLe(Int2Rat(cents),
               RAbs(RSub(CurrentMid(m), Rat(ref.yes_bid.val + ref.yes_ask.val, 2))))

RECURSIVE VolumeOf(_)
VolumeOf(part) ==
    IF part = <<>> THEN 0 ELSE Counted(Head(part).volume) + VolumeOf(Tail(part))

SpikeTriggers(cs) ==
    /\ Len(cs) >= 4
    /\ LET half == Len(cs) \div 2
           earlier == VolumeOf(SubSeq(cs, 1, half))
           recent == VolumeOf(SubSeq(cs, half + 1, Len(cs)))
       IN  recent >= VolumeMultiplier * (IF earlier = 0 THEN 1 ELSE earlier)

AnyTriggers(m, cs) ==
    \/ MoveTriggers(m, cs, ShortMinutes * 60, ShortCents)
    \/ MoveTriggers(m, cs, LongHours * 3600, LongCents)
    \/ SpikeTriggers(cs)

\* C6: detect_movements returns a MovementAlert if and only if the candle
\* list is non-empty, yes_ask is not 0 (missing or null counting 0) and one of
\* the three conditions triggers.  (With four candles or more and a null
\* volume among them the call raises instead: C7.)
C6_AlertIffTriggered ==
    last.op = "detect_movements" =>
        LET m == last.call.market
            cs == last.call.candles
        IN  IsAlert(last.result) <=>
                (cs # <<>> /\ Counted(m.yes_ask) # 0 /\ AnyTriggers(m, cs))

\* C7: no call ends in an exception: a missing or null numeric field counts 0.
\* (sum() over a null candle volume raises TypeError.)
C7_NeverRaises ==
    last.op # "none" => (last.result = None \/ last.result.kind # "TypeError")

ScenarioA == Snapshot(Num(40), Num(60), Num(35), Num(45), Num(10), Num(5))

IsScenarioA ==
    /\ last.op = "score_market"
    /\ last.call.market = ScenarioA
    /\ last.call.volume_threshold = 500

HasFlag(sig, name, arg) ==
    \E n \in 1..Len(FlagsOf(sig)) : FlagsOf(sig)[n] = Flag(name, arg)

\* C8 as claimed: scenario A gives spread 20, midpoint 50, a skew gap of 5,
\* skew_score min(5/20, 1) = 0.25 and the flags wide-spread (20), low-volume
\* (10) and price-skew (5.0 gap).
C8_ScenarioA_Gap5 ==
    IsScenarioA =>
        /\ IsSignal(last.result)
        /\ last.result.spread = 20
        /\ last.result.midpoint = Int2Rat(50)
        /\ last.result.skew = 5
        /\ _skew_score(last.result.yes_bid, last.result.no_ask) = Rat(5, 20)
        /\ HasFlag(last.result, "wide-spread", 20)
        /\ HasFlag(last.result, "low-volume", 10)
        /\ HasFlag(last.result, "price-skew", 5)

\* C8 amended: scenario A gives spread 20, midpoint 50, a skew gap of
\* |40 + 45 - 100| = 15, skew_score min(15/20, 1) = 0.75 and the flags
\* wide-spread (20), low-volume (10) and price-skew (15.0 gap).
C8_ScenarioA_Gap15 ==
    IsScenarioA =>
        /\ IsSignal(last.result)
        /\ last.result.spread = 20
        /\ last.result.midpoint = Int2Rat(50)
        /\ last.result.skew = 15
        /\ _skew_score(last.result.yes_bid, last.result.no_ask) = Rat(15, 20)
        /\ HasFlag(last.result, "wide-spread", 20)
        /\ HasFlag(last.result, "low-volume", 10)
        /\ HasFlag(last.result, "price-skew", 15)

\* scenario A was scored, and gave a signal
C8_Witness == IsScenarioA /\ IsSignal(last.result)

\* What the call of the record returns when nothing else is live: its value
\* and lists.
Afresh ==
    LET c == last.call
        r == IF last.op = "score_market"
             THEN score_market(EmptyHeap, c.market, c.volume_threshold)
             ELSE IF last.op = "find_anomalies"
             THEN LET f == find_anomalies(EmptyHeap, c.markets, c.min_score,
                               c.volume_threshold, c.spread_threshold, c.min_volume)
                  IN  [val |-> [kind |-> "list", items |-> f.val], heap |-> f.heap]
             ELSE IF last.op = "detect_movements"
             THEN detect_movements(EmptyHeap, c.market, c.candles, ShortMinutes,
                                   ShortCents, LongHours, LongCents, VolumeMultiplier)
             ELSE IF last.op = "_nearest_candle"
             THEN [val |-> IF c.candles = <<>> THEN None
                           ELSE [kind |-> "candle",
                                 candle |-> _nearest_candle(c.candles, c.target_ts),
                                 index |-> NearestIndex(c.candles, c.target_ts)],
                   heap |-> EmptyHeap]
             ELSE [val |-> [kind |-> "float",
                            val |-> _spread_score(c.spread, c.midpoint)],
                   heap |-> EmptyHeap]
    IN  Collect(r.val, r.heap)

\* C9: whatever was called before and whatever is still live, a call returns
\* what it returns on its own (the same value, the same flags and alerts),
\* its inputs are as they were, no two signals of a result share a flag list,
\* and no flag list holds "spread-threshold" twice.
C9_Pure ==
    last.op # "none" =>
        /\ last.result = Afresh.val
        /\ heap = Afresh.heap
        /\ last.op \in {"score_market", "detect_movements"} =>
               \E i \in 1..Len(markets) : markets[i] = last.call.market
        /\ last.op \in {"detect_movements", "_nearest_candle"} =>
               last.call.candles = candles
        /\ last.op = "find_anomalies" =>
               /\ last.call.markets = markets
               /\ \A i, j \in 1..Len(Items) : i # j => Items[i].flags # Items[j].flags
               /\ \A k \in 1..Len(Items) :
                     Cardinality({n \in 1..Len(FlagsOf(Items[k])) :
                                    FlagsOf(Items[k])[n] = SpreadThresholdFlag}) <= 1

\* a result of two signals from the same quotes, the one flagged
\* "spread-threshold" and the other not
C9_Witness ==
    /\ last.op = "find_anomalies"
    /\ Len(Items) = 2
    /\ HasSpreadThreshold(Items[2])
    /\ ~HasSpreadThreshold(Items[1])
    /\ Items[1].yes_bid = Items[2].yes_bid
    /\ Items[1].yes_ask = Items[2].yes_ask

\* The spread score does not decrease as the spread grows, over the grid.
SpreadMonotone ==
    \A p \in Probes :
        (p.midpoint = last.call.midpoint /\ RLe(last.call.spread, p.spread))
            => RLe(last.result.val, _spread_score(p.spread, p.midpoint))

\* C10 as claimed: for a midpoint > 0 the spread score is non-decreasing in
\* the spread and is 1 for every spread >= 0.5 * midpoint, midpoints below 1
\* included; for a midpoint <= 0 it is 0.
C10_SaturatesAtHalfMidpoint ==
    last.op = "_spread_score" =>
        LET sp == last.call.spread
            mid == last.call.midpoint
        IN  IF RLt(Zero, mid)
            THEN /\ SpreadMonotone
                 /\ RLe(RMul(Rat(1, 2), mid), sp) => last.result.val = One
            ELSE last.result.val = Zero

\* C10 amended: for a midpoint > 0 the spread score is non-decreasing in the
\* spread and is 1 exactly for the spreads >= 0.5 * max(midpoint, 1): from
\* half the midpoint on for a midpoint of 1 or more, from 0.5 on for a
\* midpoint below 1; for a midpoint <= 0 it is 0.
C10_SaturatesAtHalfClamped ==
    last.op = "_spread_score" =>
        LET sp == last.call.spread
            mid == last.call.midpoint
        IN  IF RLt(Zero, mid)
            THEN /\ SpreadMonotone
                 /\ RLe(RMul(Rat(1, 2), RMax(mid, One)), sp) <=> last.result.val = One
            ELSE last.result.val = Zero

\* a midpoint of half a cent, saturated by a spread of half a cent
C10_Witness ==
    /\ last.op = "_spread_score"
    /\ last.call.midpoint = Rat(1, 2)
    /\ last.call.spread = Rat(1, 2)
    /\ last.result.val = One

\* The volume-spike condition as the specification words it: the two halves
\* by position, split at floor(n / 2), a missing or null volume counting 0 and
\* an earlier sum of 0 replaced by 1.
EarlierSum(cs) ==
    LET sum == VolumeOf(SubSeq(cs, 1, Len(cs) \div 2))
    IN  IF sum = 0 THEN 1 ELSE sum

RecentSum(cs) == VolumeOf(SubSeq(cs, Len(cs) \div 2 + 1, Len(cs)))

SpikeRatio(cs) == Rat(RecentSum(cs), EarlierSum(cs))

AlertsOf(alert) == heap[alert.alerts]

HasSpike(val) ==
    /\ IsAlert(val)
    /\ \E k \in 1..Len(AlertsOf(val)) :
            /\ AlertsOf(val)[k].alert = "volume spike"
            /\ AlertsOf(val)[k].ratio = SpikeRatio(last.call.candles)

\* C11: on a non-empty candle list and an active ask, detect_movements emits
\* the volume-spike alert exactly when there are at least 4 candles and the
\* recent sum over the earlier sum (split at floor(n / 2), an earlier sum of 0
\* replaced by 1) is at least the multiplier, and then the magnitude is at
\* least 5 times the ratio; with fewer than 4 candles there is no such alert.
\* (A null volume among four candles or more raises instead: C7.)
C11_VolumeSpike ==
    last.op = "detect_movements" =>
        LET m == last.call.market
            cs == last.call.candles
        IN  (cs # <<>> /\ Counted(m.yes_ask) # 0) =>
                /\ HasSpike(last.result) <=>
                        (Len(cs) >= 4 /\ RLe(Int2Rat(VolumeMultiplier), SpikeRatio(cs)))
                /\ HasSpike(last.result) =>
                        RLe(RMul(Int2Rat(5), SpikeRatio(cs)), last.result.magnitude)
                /\ Len(cs) < 4 => ~HasSpike(last.result)

\* The distance of the i-th candle of the last lookup from its target.
Distance(i) == Abs(last.call.candles[i].end_period_ts - last.call.target_ts)

\* C12: nearest_candle returns absent for an empty list; otherwise it returns
\* a candle of the list whose distance |end_period_ts - target_ts| is minimal
\* over the whole list, and among the candles at that distance the one of the
\* smallest index.
C12_FirstNearest ==
    last.op = "_nearest_candle" =>
        LET cs == last.call.candles
        IN  IF cs = <<>> THEN last.result = None
            ELSE /\ last.result # None
                 /\ last.result.index \in 1..Len(cs)
                 /\ last.result.candle = cs[last.result.index]
                 /\ \A j \in 1..Len(cs) : Distance(last.result.index) <= Distance(j)
                 /\ \A j \in 1..(last.result.index - 1) :
                        Distance(j) > Distance(last.result.index)

\* a tie between two different candles, neither of them the first of the
\* list, that the earlier one wins
C12_Witness ==
    /\ last.op = "_nearest_candle"
    /\ last.result # None
    /\ last.result.index > 1
    /\ \E j \in (last.result.index + 1)..Len(last.call.candles) :
            /\ Distance(j) = Distance(last.result.index)
            /\ last.call.candles[j] # last.result.candle

\* The reference candle of a window as the specification words it: the first
\* in input order of the candles nearest to current_ts - window, current_ts
\* being the largest end_period_ts of the list.
Reference(cs, window) ==
    LET target == MaxTs(cs) - window
        dist(i) == Abs(cs[i].end_period_ts - target)
    IN  cs[CHOOSE i \in 1..Len(cs) :
                /\ \A j \in 1..Len(cs) : dist(i) <= dist(j)
                /\ \A j \in 1..(i - 1) : dist(j) > dist(i)]

HasMidpoint(candle) == candle.yes_bid.tag = "num" /\ candle.yes_ask.tag = "num"

\* current_mid minus the midpoint of the reference candle of a window
MoveOver(m, cs, window) ==
    LET ref == Reference(cs, window)
    IN  RSub(CurrentMid(m), Rat(ref.yes_bid.val + ref.yes_ask.val, 2))

Moved(m, cs, window, cents) ==
    /\ HasMidpoint(Reference(cs, window))
    /\ RLe(Int2Rat(cents), RAbs(MoveOver(m, cs, window)))

Spiked(cs) == Len(cs) >= 4 /\ RLe(Int2Rat(VolumeMultiplier), SpikeRatio(cs))

\* The messages of the triggered conditions, in the order short-term move,
\* long-term move, volume spike.
ExpectedAlerts(m, cs) ==
    (IF Moved(m, cs, ShortMinutes * 60, ShortCents)
     THEN <<[alert |-> "price", move |-> MoveOver(m, cs, ShortMinutes * 60),
             window |-> <<ShortMinutes, "m">>]>>
     ELSE <<>>)
    \o
    (IF Moved(m, cs, LongHours * 3600, LongCents)
     THEN <<[alert |-> "price", move |-> MoveOver(m, cs, LongHours * 3600),
             window |-> <<LongHours, "h">>]>>
     ELSE <<>>)
    \o
    (IF Spiked(cs)
     THEN <<[alert |-> "volume spike", ratio |-> SpikeRatio(cs)]>>
     ELSE <<>>)

\* |short move|, |long move| and 5 * volume ratio of the triggered conditions
ExpectedMagnitudes(m, cs) ==
    (IF Moved(m, cs, ShortMinutes * 60, ShortCents)
     THEN {RAbs(MoveOver(m, cs, ShortMinutes * 60))} ELSE {})
    \cup
    (IF Moved(m, cs, LongHours * 3600, LongCents)
     THEN {RAbs(MoveOver(m, cs, LongHours * 3600))} ELSE {})
    \cup
    (IF Spiked(cs) THEN {RMul(Int2Rat(5), SpikeRatio(cs))} ELSE {})

\* C13: every MovementAlert returned by detect_movements has a non-empty
\* alerts list: exactly the messages of the triggered conditions in the order
\* short-term move, long-term move, volume spike (a price move triggering
\* exactly when the reference candle has a midpoint and |current_mid - that
\* midpoint| is at least the threshold), and its magnitude is the largest of
\* |short move|, |long move| and 5 * volume ratio over the triggered ones.
C13_AlertsAndMagnitude ==
    (last.op = "detect_movements" /\ IsAlert(last.result)) =>
        LET m == last.call.market
            cs == last.call.candles
        IN  /\ AlertsOf(last.result) # <<>>
            /\ AlertsOf(last.result) = ExpectedAlerts(m, cs)
            /\ \E x \in ExpectedMagnitudes(m, cs) :
                    /\ RLe(x, last.result.magnitude) /\ RLe(last.result.magnitude, x)
                    /\ \A y \in ExpectedMagnitudes(m, cs) : RLe(y, x)

\* an alert with all three messages, in order, whose magnitude is above that
\* of its long-term move
C13_Witness ==
    /\ last.op = "detect_movements"
    /\ IsAlert(last.result)
    /\ Len(AlertsOf(last.result)) = 3
    /\ AlertsOf(last.result)[1].window = <<ShortMinutes, "m">>
    /\ AlertsOf(last.result)[2].window = <<LongHours, "h">>
    /\ AlertsOf(last.result)[3].alert = "volume spike"
    /\ RLt(RAbs(AlertsOf(last.result)[2].move), last.result.magnitude)

\* The flags of a snapshot as the specification words them, a missing or null
\* number counting 0: each of the three on its own condition, in the order
\* wide-spread, low-volume, price-skew.
ExpectedFlags(m, volume_threshold) ==
    LET spread == Counted(m.yes_ask) - Counted(m.yes_bid)
        volume_24h == Counted(m.volume_24h)
        skew == Abs(Counted(m.yes_bid) + Counted(m.no_ask) - 100)
    IN  (IF spread >= 10 THEN <<Flag("wide-spread", spread)>> ELSE <<>>)
        \o
        (IF volume_24h <= volume_threshold
         THEN <<Flag("low-volume", volume_24h)>> ELSE <<>>)
        \o
        (IF skew >= 5 THEN <<Flag("price-skew", skew)>> ELSE <<>>)

\* C14: the flags of a MarketSignal returned by score_market are the
\* wide-spread flag iff spread >= 10, the low-volume flag iff volume_24h <=
\* volume_threshold and the price-skew flag iff |yes_bid + no_ask - 100| >= 5,
\* each decided on its own, in that order, and no other flag.
C14_FlagsIndependent ==
    (last.op = "score_market" /\ IsSignal(last.result)) =>
        FlagsOf(last.result) =
            ExpectedFlags(last.call.market, last.call.volume_threshold)

\* the three flags together, the spread at exactly 10 and the skew at exactly 5
C14_Witness ==
    /\ last.op = "score_market"
    /\ IsSignal(last.result)
    /\ last.result.spread = 10
    /\ last.result.skew = 5
    /\ Len(FlagsOf(last.result)) = 3

\* The server's side of a run of iter_markets: the markets of the k-th page it
\* served, the markets of its first n pages served, and whether the k-th page
\* served is one the loop stops after (it returned no cursor or an empty one,
\* or max_markets markets or more are collected with it).
ServedPage(k) == pager.server[pager.served[k]]

RECURSIVE ServedMarkets(_)
ServedMarkets(n) ==
    IF n = 0 THEN <<>>
    ELSE ServedMarkets(n - 1) \o
         (IF ServedPage(n).markets = Missing THEN <<>> ELSE ServedPage(n).markets.val)

StopsAfter(k) ==
    \/ ServedPage(k).cursor \in {NoCursor, EmptyCursor}
    \/ Len(ServedMarkets(k)) >= pager.max_markets

\* The page a server is asked for by the n-th request of a client that follows
\* its cursors from the first page (0 once a page returned no cursor), and
\* the number of markets of the first n pages.
RECURSIVE ChainPage(_, _)
ChainPage(server, n) ==
    IF n = 1 THEN 1
    ELSE LET before == ChainPage(server, n - 1)
         IN  IF before = 0 \/ server[before].cursor \in {NoCursor, EmptyCursor}
             THEN 0 ELSE server[before].cursor.page

RECURSIVE ChainCount(_, _)
ChainCount(server, n) ==
    IF n = 0 \/ ChainPage(server, n) = 0 THEN 0
    ELSE ChainCount(server, n - 1) +
         (IF server[ChainPage(server, n)].markets = Missing THEN 0
          ELSE Len(server[ChainPage(server, n)].markets.val))

\* The server eventually returns no cursor (or an empty one) or enough markets.
EndsOrSuffices(server, max_markets) ==
    \E n \in 1..MaxFetches :
        /\ ChainPage(server, n) # 0
        /\ \/ server[ChainPage(server, n)].cursor \in {NoCursor, EmptyCursor}
           \/ ChainCount(server, n) >= max_markets

Paged ==
    /\ pager.pc = "done" =>
            /\ pager.served # <<>>
            /\ pager.result.items =
                    SubSeq(ServedMarkets(Len(pager.served)), 1, Len(pager.result.items))
            /\ Len(pager.result.items) <= pager.max_markets
            /\ \/ Len(pager.result.items) = pager.max_markets
               \/ Len(pager.result.items) = Len(ServedMarkets(Len(pager.served)))
    /\ \A k \in 1..Len(pager.sent) :
            pager.sent[k] = IF k = 1 THEN NoCursor ELSE ServedPage(k - 1).cursor
    /\ \A k \in 1..Len(pager.served) :
            StopsAfter(k) <=> (pager.pc = "done" /\ k = Len(pager.served))

\* C15: iter_markets (max_markets >= 0) returns the markets of the pages it
\* fetched, in fetch order, cut to at most max_markets entries; the first
\* request carries no cursor and each later one the cursor the previous page
\* returned; the loop stops after the first page that returns no cursor (or
\* an empty one) or with which max_markets markets or more are collected; and
\* it does stop against every server that eventually returns no cursor or
\* enough markets.
C15_PagesUntilDone ==
    /\ []Paged
    /\ (pager.pc = "loop" /\ EndsOrSuffices(pager.server, pager.max_markets))
            ~> (pager.pc = "done")

\* a run over a server that goes round in circles: three pages fetched or
\* more, one of them twice, and the markets cut to max_markets
C15_Witness ==
    /\ pager.pc = "done"
    /\ Len(pager.served) >= 3
    /\ \E j, k \in 1..Len(pager.served) : j < k /\ pager.served[j] = pager.served[k]
    /\ Len(pager.result.items) = pager.max_markets
    /\ Len(pager.markets) > pager.max_markets

====
